---- MODULE Spec2Model ----
(***************************************************************************)
(* A model of the sbrk-based free-list allocator of src/src/alloc.c:       *)
(* tumalloc, turealloc, tufree and the helpers they call (find_prev,       *)
(* find_next, coalesce, do_alloc).                                         *)
(*                                                                         *)
(* Memory is an array of machine words (sizeof(size_t) bytes each) indexed *)
(* by byte address.  Every value the program stores is a whole word: a     *)
(* block size, a list link, or a word of caller data.  Addresses and sizes *)
(* are unsigned values of WordBits bits and wrap as the C arithmetic does. *)
(***************************************************************************)
EXTENDS Integers, Sequences, FiniteSets, TLC

\* alloc.c:9
ALIGNMENT == 16
\* sizeof(size_t): the offset between a block and the pointer handed out
SizeofSizeT == 8
\* sizeof(free_block): a size_t size followed by a free_block *next
SizeofFreeBlock == 16
NULL == 0

\* width of size_t and of a pointer in the model
WordBits == 16
Mod == 2 ^ WordBits

\* the heap may grow to MaxWords words above the initial break
MaxWords == 21
\* how many steps (calls, stores) a run makes: under Spec, SpecSeq, SpecScen
MaxOps == 5
MaxSeqOps == 5
MaxScenOps == 9
\* how many words the caller stores into its blocks in one run
MaxWrites == 1
\* how many calls a run makes under SpecWide
MaxWideOps == 4
\* how many calls a run makes under SpecSplit
MaxSplitOps == 5

\* initial program break: page aligned, hence ALIGNMENT aligned
HeapBase == 256 * ALIGNMENT
HeapLimit == HeapBase + SizeofSizeT * MaxWords
\* the words of the last heap page: those below the break belong to the heap,
\* those at or above it may or may not be mapped
MemEnd == HeapLimit + SizeofFreeBlock
Addrs == {a \in HeapBase .. (MemEnd - 1) : a % SizeofSizeT = 0}
Fuel == Cardinality(Addrs) + 1

\* sizes the caller asks for, and the words it stores
Sizes == {0, 1, 16, 32}
SeqSizes == {16, 32, 80}
ScenSizes == {0, 16}
UserVals == {168}
\* sizes allocated before a split, and sizes split at
SplitAllocSizes == {16, 48}
SplitSizes == {16, 32}
\* sizes up to the largest size_t, and element counts for tucalloc
WideSizes == {16, 2 ^ WordBits - 32, 2 ^ WordBits - 16, 2 ^ WordBits - 1}
Nums == {1, 2}

Add(a, b) == (a + b) % Mod
Sub(a, b) == (a - b + Mod) % Mod

(***************************************************************************)
(* The working state of one call: memory, the list head, the break, how    *)
(* the call ends (st: "ok", "crash" on a fault, "hang" in a loop that      *)
(* never ends), whether it touched a word at or above the break (oob), its *)
(* return value, whether it called sbrk (asked), and the set of blocks that *)
(* are free and have been neither handed out nor absorbed since (freed, a  *)
(* history value the program does not store).  Once st is not "ok" every   *)
(* later step leaves the working state alone.                              *)
(***************************************************************************)
Mapped(a) == a \in Addrs

\* the call reads or writes the word at a
Touch(w, a) ==
    IF w.st # "ok" THEN w
    ELSE IF ~Mapped(a) THEN [w EXCEPT !.st = "crash"]
    ELSE [w EXCEPT !.oob = @ \/ a >= w.brk]

Load(w, a) == IF Mapped(a) THEN w.mem[a] ELSE 0

Store(w, a, v) ==
    IF w.st # "ok" THEN w
    ELSE IF ~Mapped(a) THEN [w EXCEPT !.st = "crash"]
    ELSE [w EXCEPT !.mem[a] = v, !.oob = @ \/ a >= w.brk]

Hang(w) == IF w.st # "ok" THEN w ELSE [w EXCEPT !.st = "hang"]
SetHead(w, v) == IF w.st # "ok" THEN w ELSE [w EXCEPT !.HEAD = v]
SetRet(w, v) == IF w.st # "ok" THEN w ELSE [w EXCEPT !.ret = v]
\* history only: block b became free / stopped being a free block of its own
MarkFree(w, b) == IF w.st # "ok" THEN w ELSE [w EXCEPT !.freed = @ \cup {b}]
Unfree(w, b) == IF w.st # "ok" THEN w ELSE [w EXCEPT !.freed = @ \ {b}]

\* the fields of the free_block at b: size at offset 0, next after it
SizeAddr(b) == b
NextAddr(b) == Add(b, SizeofSizeT)
SizeOf(w, b) == Load(w, SizeAddr(b))
NextOf(w, b) == Load(w, NextAddr(b))

\* (char *)b + b->size + sizeof(free_block)
EndOf(w, b) == Add(Add(b, SizeOf(w, b)), SizeofFreeBlock)

\* alloc.c:20-34, for size >= 0 (the int converts to size_t unchanged)
split(w, block, size) ==
    LET new_block == Add(Add(block, size), SizeofFreeBlock)
        cut(w1) ==
            Store(Store(Touch(Store(w1, SizeAddr(new_block),
                                    Sub(Sub(SizeOf(w1, block), size),
                                        SizeofFreeBlock)),
                              NextAddr(block)),
                        NextAddr(new_block), NextOf(w1, block)),
                  SizeAddr(block), size)
    IN  IF ~Mapped(SizeAddr(block)) THEN Touch(w, SizeAddr(block))
        ELSE IF SizeOf(w, block) < Add(size, SizeofFreeBlock)
        THEN SetRet(Touch(w, SizeAddr(block)), NULL)
        ELSE SetRet(cut(Touch(w, SizeAddr(block))), block)

\* alloc.c:44-50, the loop from curr on
RECURSIVE find_prev_from(_, _, _, _)
find_prev_from(w, curr, block, fuel) ==
    IF curr = NULL \/ w.st # "ok" THEN SetRet(w, NULL)
    ELSE IF fuel = 0 THEN Hang(w)
    ELSE IF Mapped(SizeAddr(curr)) /\ EndOf(w, curr) = block
    THEN SetRet(Touch(w, SizeAddr(curr)), curr)
    ELSE find_prev_from(Touch(Touch(w, SizeAddr(curr)), NextAddr(curr)),
                        NextOf(w, curr), block, fuel - 1)

\* alloc.c:42-51
find_prev(w, block) == find_prev_from(w, w.HEAD, block, Fuel)

\* alloc.c:63-68, the loop from curr on
RECURSIVE find_next_from(_, _, _, _)
find_next_from(w, curr, block_end, fuel) ==
    IF curr = NULL \/ w.st # "ok" THEN SetRet(w, NULL)
    ELSE IF fuel = 0 THEN Hang(w)
    ELSE IF curr = block_end THEN SetRet(w, curr)
    ELSE find_next_from(Touch(w, NextAddr(curr)), NextOf(w, curr), block_end,
                        fuel - 1)

\* alloc.c:59-69
find_next(w, block) ==
    find_next_from(Touch(w, SizeAddr(block)), w.HEAD, EndOf(w, block), Fuel)

\* alloc.c:106-117; ret is the block the merge leaves
merge_prev(w, block, prev) ==
    LET link(w4) ==
            IF NextOf(w4, prev) = block
            THEN Store(Touch(w4, NextAddr(block)), NextAddr(prev), NextOf(w4, block))
            ELSE w4
        grow(w2) ==
            Store(w2, SizeAddr(prev),
                  Add(SizeOf(w2, prev), Add(SizeOf(w2, block), SizeofFreeBlock)))
    IN  IF prev = NULL THEN SetRet(w, block)
        ELSE IF ~Mapped(SizeAddr(prev)) THEN Touch(w, SizeAddr(prev))
        ELSE IF EndOf(w, prev) # block THEN SetRet(Touch(w, SizeAddr(prev)), block)
        ELSE SetRet(Unfree(link(Touch(grow(Touch(Touch(w, SizeAddr(prev)),
                                                 SizeAddr(block))),
                                      NextAddr(prev))),
                           block),
                    prev)

\* alloc.c:120-128
merge_next(w, block, next) ==
    LET grow(w2) ==
            Store(w2, SizeAddr(block),
                  Add(SizeOf(w2, block), Add(SizeOf(w2, next), SizeofFreeBlock)))
        link(w4) == Store(w4, NextAddr(block), NextOf(w4, next))
    IN  IF next = NULL THEN SetRet(w, block)
        ELSE IF ~Mapped(SizeAddr(block)) THEN Touch(w, SizeAddr(block))
        ELSE IF EndOf(w, block) # next THEN SetRet(Touch(w, SizeAddr(block)), block)
        ELSE SetRet(Unfree(link(Touch(grow(Touch(Touch(w, SizeAddr(block)),
                                                 SizeAddr(next))),
                                      NextAddr(next))),
                           next),
                    block)

\* alloc.c:97-131
coalesce(w, block) ==
    LET second(w1, next) == merge_next(w1, w1.ret, next)
        first(wn, prev) == second(merge_prev(wn, block, prev), wn.ret)
        found(wp) == first(find_next(wp, block), wp.ret)
    IN  IF block = NULL THEN SetRet(w, NULL) ELSE found(find_prev(w, block))

\* an unsigned word read as the signed increment sbrk takes
Signed(n) == IF n >= Mod \div 2 THEN n - Mod ELSE n

\* sbrk(size): the old break, or (void *)-1 when the system refuses; asked
\* records that the call went to the system
sbrk(w, size, grant) ==
    IF grant /\ w.brk + Signed(size) >= HeapBase /\ w.brk + Signed(size) <= HeapLimit
    THEN [w EXCEPT !.ret = w.brk, !.brk = w.brk + Signed(size), !.asked = TRUE]
    ELSE [w EXCEPT !.ret = Mod - 1, !.asked = TRUE]

\* alloc.c:139-146
do_alloc(w, size, grant) ==
    LET result(w1) == IF w1.ret = Mod - 1 THEN [w1 EXCEPT !.ret = NULL] ELSE w1
    IN  result(sbrk(w, size, grant))

\* alloc.c:156
AlignUp(size) == Add(size, ALIGNMENT - 1) - (Add(size, ALIGNMENT - 1) % ALIGNMENT)

\* alloc.c:162-167: curr is taken off the list and handed out
take(w, curr, prev) ==
    SetRet(Unfree(IF prev # NULL
                  THEN Store(Touch(w, NextAddr(curr)), NextAddr(prev), NextOf(w, curr))
                  ELSE SetHead(Touch(w, NextAddr(curr)), NextOf(w, curr)),
                  curr),
           Add(curr, SizeofSizeT))

\* alloc.c:159-171, the loop from curr on; ret = NULL when it ends without
\* returning
RECURSIVE tumalloc_scan(_, _, _, _, _)
tumalloc_scan(w, size, curr, prev, fuel) ==
    IF curr = NULL \/ w.st # "ok" THEN SetRet(w, NULL)
    ELSE IF fuel = 0 THEN Hang(w)
    ELSE IF Mapped(SizeAddr(curr)) /\ SizeOf(w, curr) >= Add(size, SizeofFreeBlock)
    THEN take(Touch(w, SizeAddr(curr)), curr, prev)
    ELSE tumalloc_scan(Touch(Touch(w, SizeAddr(curr)), NextAddr(curr)), size,
                       NextOf(w, curr), curr, fuel - 1)

\* the loop of alloc.c:159-171 with alloc.c:161 reading
\* curr->size > size + sizeof(free_block)
RECURSIVE tumalloc_scan_strict(_, _, _, _, _)
tumalloc_scan_strict(w, size, curr, prev, fuel) ==
    IF curr = NULL \/ w.st # "ok" THEN SetRet(w, NULL)
    ELSE IF fuel = 0 THEN Hang(w)
    ELSE IF Mapped(SizeAddr(curr)) /\ SizeOf(w, curr) > Add(size, SizeofFreeBlock)
    THEN take(Touch(w, SizeAddr(curr)), curr, prev)
    ELSE tumalloc_scan_strict(Touch(Touch(w, SizeAddr(curr)), NextAddr(curr)), size,
                              NextOf(w, curr), curr, fuel - 1)

\* tumalloc scanning with that loop
tumalloc_strict(w, size, grant) ==
    LET stamp(w2) ==
            IF w2.ret = NULL THEN w2
            ELSE SetRet(Store(w2, w2.ret, AlignUp(size)), Add(w2.ret, SizeofSizeT))
        scanned(w1) ==
            IF w1.st # "ok" \/ w1.ret # NULL THEN w1
            ELSE stamp(do_alloc(w1, Add(AlignUp(size), SizeofSizeT), grant))
    IN  scanned(tumalloc_scan_strict(w, AlignUp(size), w.HEAD, NULL, Fuel))

\* alloc.c:154-181
tumalloc(w, size, grant) ==
    LET stamp(w2) ==
            IF w2.ret = NULL THEN w2
            ELSE SetRet(Store(w2, w2.ret, AlignUp(size)), Add(w2.ret, SizeofSizeT))
        scanned(w1) ==
            IF w1.st # "ok" \/ w1.ret # NULL THEN w1
            ELSE stamp(do_alloc(w1, Add(AlignUp(size), SizeofSizeT), grant))
    IN  scanned(tumalloc_scan(w, AlignUp(size), w.HEAD, NULL, Fuel))

\* alloc.c:243-252
tufree(w, ptr) ==
    IF ptr = NULL THEN w
    ELSE coalesce(MarkFree(SetHead(Store(w, NextAddr(Sub(ptr, SizeofSizeT)), w.HEAD),
                                   Sub(ptr, SizeofSizeT)),
                           Sub(ptr, SizeofSizeT)),
                  Sub(ptr, SizeofSizeT))

\* a word whose n lowest bytes are set to zero
ZeroLow(v, n) ==
    IF 8 * n >= WordBits THEN 0 ELSE (v \div (2 ^ (8 * n))) * (2 ^ (8 * n))

\* memset(dst, 0, n), a word at a time, the last one in part
RECURSIVE memset(_, _, _)
memset(w, dst, n) ==
    IF n = 0 \/ w.st # "ok" THEN w
    ELSE IF n < SizeofSizeT THEN Store(w, dst, ZeroLow(Load(w, dst), n))
    ELSE memset(Store(w, dst, 0), Add(dst, SizeofSizeT), n - SizeofSizeT)

\* alloc.c:189-199
tucalloc(w, num, size, grant) ==
    LET zeroed(w1) ==
            IF w1.st # "ok" \/ w1.ret = NULL THEN w1
            ELSE SetRet(memset(w1, w1.ret, (num * size) % Mod), w1.ret)
    IN  zeroed(tumalloc(w, (num * size) % Mod, grant))

\* memcpy(dst, src, n) for n a whole number of words; w0 holds the bytes read
RECURSIVE memcpy(_, _, _, _, _)
memcpy(w, w0, dst, src, n) ==
    IF n < SizeofSizeT \/ w.st # "ok" THEN w
    ELSE memcpy(Store(Touch(w, Add(src, n - SizeofSizeT)), Add(dst, n - SizeofSizeT),
                      Load(w0, Add(src, n - SizeofSizeT))),
                w0, dst, src, n - SizeofSizeT)

\* turealloc_move with alloc.c:222 reading old_size > new_size
turealloc_move_strict(w, ptr, new_size, grant) ==
    LET moved(w2, old_size) ==
            IF w2.st # "ok" \/ w2.ret = NULL THEN w2
            ELSE SetRet(tufree(memcpy(w2, w2, w2.ret, ptr, old_size), ptr), w2.ret)
        sized(w1, old_size) ==
            IF w1.st # "ok" THEN w1
            ELSE IF old_size > new_size THEN SetRet(w1, ptr)
            ELSE moved(tumalloc(w1, new_size, grant), old_size)
    IN  sized(Touch(w, Sub(ptr, SizeofSizeT)), Load(w, Sub(ptr, SizeofSizeT)))

\* turealloc_move releasing ptr when tumalloc returns NULL at alloc.c:228
turealloc_move_releasing(w, ptr, new_size, grant) ==
    LET moved(w2, old_size) ==
            IF w2.st # "ok" THEN w2
            ELSE IF w2.ret = NULL THEN SetRet(tufree(w2, ptr), NULL)
            ELSE SetRet(tufree(memcpy(w2, w2, w2.ret, ptr, old_size), ptr), w2.ret)
        sized(w1, old_size) ==
            IF w1.st # "ok" THEN w1
            ELSE IF old_size >= new_size THEN SetRet(w1, ptr)
            ELSE moved(tumalloc(w1, new_size, grant), old_size)
    IN  sized(Touch(w, Sub(ptr, SizeofSizeT)), Load(w, Sub(ptr, SizeofSizeT)))

\* alloc.c:220-236: the block at ptr keeps its place or moves
turealloc_move(w, ptr, new_size, grant) ==
    LET moved(w2, old_size) ==
            IF w2.st # "ok" \/ w2.ret = NULL THEN w2
            ELSE SetRet(tufree(memcpy(w2, w2, w2.ret, ptr, old_size), ptr), w2.ret)
        sized(w1, old_size) ==
            IF w1.st # "ok" THEN w1
            ELSE IF old_size >= new_size THEN SetRet(w1, ptr)
            ELSE moved(tumalloc(w1, new_size, grant), old_size)
    IN  sized(Touch(w, Sub(ptr, SizeofSizeT)), Load(w, Sub(ptr, SizeofSizeT)))

\* turealloc without the test of alloc.c:215
turealloc_zero_unchecked(w, ptr, new_size, grant) ==
    IF ptr = NULL THEN tumalloc(w, new_size, grant)
    ELSE turealloc_move(w, ptr, new_size, grant)

\* turealloc with the tests of alloc.c:210 and alloc.c:215 in the other order
turealloc_zero_first(w, ptr, new_size, grant) ==
    IF new_size = 0 THEN SetRet(tufree(w, ptr), NULL)
    ELSE IF ptr = NULL THEN tumalloc(w, new_size, grant)
    ELSE turealloc_move(w, ptr, new_size, grant)

\* alloc.c:208-236
turealloc(w, ptr, new_size, grant) ==
    IF ptr = NULL THEN tumalloc(w, new_size, grant)
    ELSE IF new_size = 0 THEN SetRet(tufree(w, ptr), NULL)
    ELSE turealloc_move(w, ptr, new_size, grant)

(***************************************************************************)
(* The program state between calls.                                        *)
(*   mem, HEAD, brk  memory, the static HEAD of alloc.c:11, the break      *)
(*   live            the pointers the caller holds, oldest first, each     *)
(*                   with the size it last asked for                       *)
(*   pc              "run", or "crashed" / "hung" once a call did not      *)
(*                   return                                                *)
(*   hist            the most recent calls, newest last                    *)
(*   freed           blocks released and neither handed out nor absorbed   *)
(*   nops            steps of the caller so far: calls made, words stored  *)
(*   nwrites         words stored by the caller so far                     *)
(***************************************************************************)
VARIABLES mem, HEAD, brk, live, pc, hist, freed, nops, nwrites

vars == <<mem, HEAD, brk, live, pc, hist, freed, nops, nwrites>>

W0 == [mem |-> mem, HEAD |-> HEAD, brk |-> brk, st |-> "ok", oob |-> FALSE,
       asked |-> FALSE, ret |-> NULL, freed |-> freed]

Pre == [mem |-> mem, HEAD |-> HEAD, brk |-> brk, live |-> live, freed |-> freed]

\* keep the K most recent calls
Push(h, e, K) == IF Len(h) < K THEN Append(h, e) ELSE Append(Tail(h), e)

Remove(s, i) == [j \in 1 .. (Len(s) - 1) |-> IF j < i THEN s[j] ELSE s[j + 1]]

\* the blocks reached from h by following next links in memory m
RECURSIVE ListFrom(_, _, _)
ListFrom(m, curr, seen) ==
    IF curr = NULL \/ curr \in seen \/ ~Mapped(curr) THEN seen
    ELSE ListFrom(m, IF Mapped(NextAddr(curr)) THEN m[NextAddr(curr)] ELSE NULL,
                  seen \cup {curr})

FreeListOf(m, h) == ListFrom(m, h, {})
FreeList == FreeListOf(mem, HEAD)

Init ==
    /\ mem = [a \in Addrs |-> 0]
    /\ HEAD = NULL
    /\ brk = HeapBase
    /\ live = <<>>
    /\ pc = "run"
    /\ hist = <<>>
    /\ freed = {}
    /\ nops = 0
    /\ nwrites = 0

\* whether the call faults on a word it touched at or above the break: F holds
\* the ways such a word can turn out, TRUE for unmapped
Faults(r, F) == IF r.st = "ok" /\ r.oob THEN F ELSE {FALSE}

Outcome(r, c) ==
    IF r.st = "crash" \/ c THEN "crashed" ELSE IF r.st = "hang" THEN "hung" ELSE "ret"

\* how a call (kind op, arguments ptr and size) that ended in working state r
\* leaves the program; the K most recent calls are remembered, each with the
\* system's answer to its sbrk when it made one
Finish(r, c, newlive, op, ptr, size, grant, K) ==
    /\ pc' = IF Outcome(r, c) = "ret" THEN "run" ELSE Outcome(r, c)
    /\ mem' = IF Outcome(r, c) = "crashed" THEN mem ELSE r.mem
    /\ HEAD' = IF Outcome(r, c) = "crashed" THEN HEAD ELSE r.HEAD
    /\ brk' = IF Outcome(r, c) = "crashed" THEN brk ELSE r.brk
    /\ freed' = IF Outcome(r, c) = "crashed" THEN freed ELSE r.freed
    /\ live' = IF Outcome(r, c) = "ret" THEN newlive ELSE live
    /\ hist' = Push(hist, [op |-> op, ptr |-> ptr, size |-> size,
                           grant |-> r.asked => grant,
                           ret |-> IF Outcome(r, c) = "ret" THEN r.ret ELSE NULL,
                           out |-> Outcome(r, c), pre |-> Pre], K)
    /\ nops' = nops + 1
    /\ UNCHANGED nwrites

\* the program is running and the run has steps left
Ready(N) == pc = "run" /\ nops < N

AllocateDone(r, c, size, grant, K) ==
    Finish(r, c,
           IF r.ret = NULL THEN live ELSE Append(live, [ptr |-> r.ret, req |-> size]),
           "Allocate", NULL, size, grant, K)

\* p = tumalloc(size), sizes from S, sbrk granted or refused as G allows
Allocate(S, G, F, K, N) ==
    /\ Ready(N)
    /\ \E size \in S, grant \in G :
         \E c \in Faults(tumalloc(W0, size, grant), F) :
            AllocateDone(tumalloc(W0, size, grant), c, size, grant, K)

ZeroAllocateDone(r, c, num, size, grant, K) ==
    Finish(r, c,
           IF r.ret = NULL THEN live
           ELSE Append(live, [ptr |-> r.ret, req |-> (num * size) % Mod]),
           "ZeroAllocate", num, size, grant, K)

\* p = tucalloc(num, size); the call's entry in hist holds num as ptr
ZeroAllocate(M, S, G, F, K, N) ==
    /\ Ready(N)
    /\ \E num \in M, size \in S, grant \in G :
         \E c \in Faults(tucalloc(W0, num, size, grant), F) :
            ZeroAllocateDone(tucalloc(W0, num, size, grant), c, num, size, grant, K)

\* tufree(p) of a pointer the caller holds
Release(F, K, N) ==
    /\ Ready(N)
    /\ \E i \in DOMAIN live :
         \E c \in Faults(tufree(W0, live[i].ptr), F) :
            Finish(tufree(W0, live[i].ptr), c, Remove(live, i),
                   "Release", live[i].ptr, 0, TRUE, K)

\* tufree(NULL)
ReleaseNull(F, K, N) ==
    /\ Ready(N)
    /\ \E c \in Faults(tufree(W0, NULL), F) :
         Finish(tufree(W0, NULL), c, live, "Release", NULL, 0, TRUE, K)

ResizeDone(r, c, i, size, grant, K) ==
    Finish(r, c,
           IF size = 0 THEN Remove(live, i)
           ELSE IF r.ret = NULL THEN live
           ELSE [live EXCEPT ![i] = [ptr |-> r.ret, req |-> size]],
           "Resize", live[i].ptr, size, grant, K)

\* q = turealloc(p, size) of a pointer the caller holds
Resize(S, G, F, K, N) ==
    /\ Ready(N)
    /\ \E i \in DOMAIN live, size \in S, grant \in G :
         \E c \in Faults(turealloc(W0, live[i].ptr, size, grant), F) :
            ResizeDone(turealloc(W0, live[i].ptr, size, grant), c, i, size, grant, K)

ResizeNullDone(r, c, size, grant, K) ==
    Finish(r, c,
           IF r.ret = NULL THEN live ELSE Append(live, [ptr |-> r.ret, req |-> size]),
           "Resize", NULL, size, grant, K)

\* q = turealloc(NULL, size)
ResizeNull(S, G, F, K, N) ==
    /\ Ready(N)
    /\ \E size \in S, grant \in G :
         \E c \in Faults(turealloc(W0, NULL, size, grant), F) :
            ResizeNullDone(turealloc(W0, NULL, size, grant), c, size, grant, K)

\* split(block, size) of a block of the free list
Split(S, F, K, N) ==
    /\ Ready(N)
    /\ \E block \in ListFrom(mem, HEAD, {}), size \in S :
         \E c \in Faults(split(W0, block, size), F) :
            Finish(split(W0, block, size), c, live, "Split", block, size, TRUE, K)

\* the caller stores a word inside the size it asked for
Write(K, N) ==
    /\ Ready(N)
    /\ nwrites < MaxWrites
    /\ \E i \in DOMAIN live, v \in UserVals :
         \E k \in 0 .. ((live[i].req \div SizeofSizeT) - 1) :
            /\ mem' = [mem EXCEPT ![Add(live[i].ptr, SizeofSizeT * k)] = v]
            /\ nwrites' = nwrites + 1
            /\ nops' = nops + 1
            /\ hist' = Push(hist, [op |-> "Write", ptr |-> live[i].ptr,
                                   size |-> SizeofSizeT * k, grant |-> TRUE,
                                   ret |-> NULL, out |-> "ret", pre |-> Pre], K)
            /\ UNCHANGED <<HEAD, brk, live, pc, freed>>

\* any calls, in any order; the last call is remembered
Next ==
    \/ Allocate(Sizes, BOOLEAN, BOOLEAN, 1, MaxOps)
    \/ Release(BOOLEAN, 1, MaxOps)
    \/ ReleaseNull(BOOLEAN, 1, MaxOps)
    \/ Resize(Sizes, BOOLEAN, BOOLEAN, 1, MaxOps)
    \/ ResizeNull(Sizes, BOOLEAN, BOOLEAN, 1, MaxOps)
    \/ Write(1, MaxOps)

Spec == Init /\ [][Next]_vars

\* short sequences of tumalloc and tufree, the system granting every sbrk and
\* mapping nothing above the break; the SeqLen most recent calls are remembered
SeqLen == 5
NextSeq ==
    \/ Allocate(SeqSizes, {TRUE}, {TRUE}, SeqLen, MaxSeqOps)
    \/ Release({TRUE}, SeqLen, MaxSeqOps)

SpecSeq == Init /\ [][NextSeq]_vars

\* longer runs of tumalloc and tufree over small and empty blocks, the system
\* granting every sbrk and mapping nothing above the break
NextScen ==
    \/ Allocate(ScenSizes, {TRUE}, {TRUE}, 1, MaxScenOps)
    \/ Release({TRUE}, 1, MaxScenOps)

SpecScen == Init /\ [][NextScen]_vars

\* calls with sizes up to the largest size_t, the system granting every sbrk
\* that keeps the break inside the heap
NextWide ==
    \/ Allocate(WideSizes, {TRUE}, BOOLEAN, 1, MaxWideOps)
    \/ ZeroAllocate(Nums, WideSizes, {TRUE}, BOOLEAN, 1, MaxWideOps)
    \/ Resize(WideSizes, {TRUE}, BOOLEAN, 1, MaxWideOps)
    \/ Release(BOOLEAN, 1, MaxWideOps)

SpecWide == Init /\ [][NextWide]_vars

\* tumalloc, tufree and split of free blocks, the system granting every sbrk
\* and mapping nothing above the break
NextSplit ==
    \/ Allocate(SplitAllocSizes, {TRUE}, {TRUE}, 1, MaxSplitOps)
    \/ Release({TRUE}, 1, MaxSplitOps)
    \/ Split(SplitSizes, {TRUE}, 1, MaxSplitOps)

SpecSplit == Init /\ [][NextSplit]_vars

(***************************************************************************)
(* What the properties below talk about.                                   *)
(***************************************************************************)
\* the k-th most recent call (0 = the last one)
Called(k) == hist[Len(hist) - k]
Last == Called(0)

\* the working state a call starts from, rebuilt from a remembered state
WOf(pre) == [mem |-> pre.mem, HEAD |-> pre.HEAD, brk |-> pre.brk, st |-> "ok",
             oob |-> FALSE, asked |-> FALSE, ret |-> NULL, freed |-> pre.freed]

\* the program's memory, head and break are those of working state r
SameAs(r) == mem = r.mem /\ HEAD = r.HEAD /\ brk = r.brk

\* the program is as a call ending in working state r leaves it
LeftBy(r) ==
    \E c \in Faults(r, BOOLEAN) :
        /\ Last.out = Outcome(r, c)
        /\ Last.out = "ret" => Last.ret = r.ret /\ SameAs(r)

\* following next links from curr comes back to a block already visited
RECURSIVE CycleFrom(_, _, _)
CycleFrom(m, curr, seen) ==
    IF curr = NULL \/ ~Mapped(curr) \/ ~Mapped(NextAddr(curr)) THEN FALSE
    ELSE IF curr \in seen THEN TRUE
    ELSE CycleFrom(m, m[NextAddr(curr)], seen \cup {curr})

\* the bytes of block b: its size word and the size bytes after it
Bytes(m, b) == {a \in Addrs : a >= b /\ a < b + SizeofSizeT + m[b]}

(***************************************************************************)
(* C1: when the free list is empty, p = Allocate(s) with s > 0, then       *)
(* Release(p), then Allocate(s) return the same address p and the second   *)
(* Allocate does not raise the break.                                      *)
(***************************************************************************)
C1_ReleasedBlockReused ==
    (/\ Len(hist) >= 3
     /\ Called(2).op = "Allocate" /\ Called(2).size > 0
     /\ Called(2).pre.HEAD = NULL /\ Called(2).ret # NULL
     /\ Called(1).op = "Release" /\ Called(1).ptr = Called(2).ret
     /\ Called(1).out = "ret"
     /\ Last.op = "Allocate" /\ Last.size = Called(2).size /\ Last.out = "ret")
    => (Last.ret = Called(2).ret /\ brk = Last.pre.brk)

(***************************************************************************)
(* C2: from an empty free list, A = Allocate(32) and B = Allocate(32)      *)
(* carved one after the other, then Release(A) and Release(B), then        *)
(* Allocate(64 + header size): the last call succeeds inside the span of   *)
(* A and B and does not raise the break.                                   *)
(***************************************************************************)
C2_CoalescedSpanReused ==
    (/\ Len(hist) >= 5
     /\ Called(4).op = "Allocate" /\ Called(4).size = 32
     /\ Called(4).pre.HEAD = NULL
     /\ Called(4).ret = Add(Called(4).pre.brk, SizeofSizeT)
     /\ Called(3).op = "Allocate" /\ Called(3).size = 32
     /\ Called(3).ret = Add(Called(3).pre.brk, SizeofSizeT)
     /\ Called(2).op = "Release" /\ Called(2).ptr = Called(4).ret
     /\ Called(1).op = "Release" /\ Called(1).ptr = Called(3).ret
     /\ Called(1).out = "ret"
     /\ Last.op = "Allocate" /\ Last.size = 64 + SizeofFreeBlock)
    => (/\ Last.out = "ret"
        /\ Last.ret = Called(4).ret
        /\ brk = Last.pre.brk)

(***************************************************************************)
(* C3: every non-null address Allocate(s) returns for s > 0 is a multiple  *)
(* of 16, the initial break being 16-byte aligned.                         *)
(***************************************************************************)
C3_ReturnAligned ==
    (/\ Len(hist) >= 1
     /\ Last.op = "Allocate" /\ Last.size > 0 /\ Last.ret # NULL)
    => Last.ret % ALIGNMENT = 0

(***************************************************************************)
(* C4: no two blocks reachable from the free-list head overlap; after a    *)
(* Release that merged the released block into its previous neighbour the  *)
(* released block is no longer an entry of the list.                       *)
(***************************************************************************)
C4_FreeBlocksDisjoint ==
    pc = "run" =>
        /\ \A a \in FreeList : \A b \in FreeList :
              a # b => Bytes(mem, a) \cap Bytes(mem, b) = {}
        /\ (/\ Len(hist) >= 1
            /\ Last.op = "Release" /\ Last.ptr # NULL
            /\ Sub(Last.ptr, SizeofSizeT) \notin freed)
           => Sub(Last.ptr, SizeofSizeT) \notin FreeList

(***************************************************************************)
(* C5: every block released and since neither handed out again nor         *)
(* absorbed into a neighbour is reachable from the free-list head; the     *)
(* only blocks a Release takes off the list are the ones it absorbed.      *)
(***************************************************************************)
C5_FreedBlocksReachable ==
    pc = "run" =>
        /\ freed \subseteq FreeList
        /\ (Len(hist) >= 1 /\ Last.op = "Release")
           => (FreeListOf(Last.pre.mem, Last.pre.HEAD) \ FreeList)
                  \subseteq (Last.pre.freed \ freed)

(***************************************************************************)
(* C6: every call returns: the free list never holds a cycle, so no scan   *)
(* of it runs forever.                                                     *)
(***************************************************************************)
C6_ListAcyclic == pc # "hung" /\ ~CycleFrom(mem, HEAD, {})

(***************************************************************************)
(* C7 as claimed: for p null or held by the caller, Resize(p, 0) returns   *)
(* null and leaves memory, the free list and the break as Release(p) does. *)
(***************************************************************************)
C7_ResizeZeroReleases ==
    (Len(hist) >= 1 /\ Last.op = "Resize" /\ Last.size = 0)
    => LeftBy(SetRet(tufree(WOf(Last.pre), Last.ptr), NULL))

(***************************************************************************)
(* C7 amended: for p held by the caller, Resize(p, 0) returns null and     *)
(* leaves memory, the free list and the break as Release(p) does;          *)
(* Resize(null, 0) does what Allocate(0) does.                             *)
(***************************************************************************)
C7_ResizeLiveZeroReleases ==
    (Len(hist) >= 1 /\ Last.op = "Resize" /\ Last.size = 0)
    => IF Last.ptr # NULL
       THEN LeftBy(SetRet(tufree(WOf(Last.pre), Last.ptr), NULL))
       ELSE LeftBy(tumalloc(WOf(Last.pre), 0, Last.grant))

\* Resize(p, 0) returned after putting p's block at the head of the list
C7_Witness ==
    /\ Len(hist) >= 1 /\ Last.op = "Resize" /\ Last.size = 0
    /\ Last.ptr # NULL /\ Last.out = "ret" /\ Last.ret = NULL
    /\ HEAD = Sub(Last.ptr, SizeofSizeT) /\ HEAD # Last.pre.HEAD

(***************************************************************************)
(* C8: Resize(null, n) returns what Allocate(n) returns from the same      *)
(* state and leaves the same memory, free list and break; Release(null)    *)
(* returns and changes nothing.                                            *)
(***************************************************************************)
C8_NullPointerCalls ==
    Len(hist) >= 1 =>
        /\ (Last.op = "Resize" /\ Last.ptr = NULL)
           => LeftBy(tumalloc(WOf(Last.pre), Last.size, Last.grant))
        /\ (Last.op = "Release" /\ Last.ptr = NULL)
           => (Last.out = "ret" /\ SameAs(Last.pre) /\ live = Last.pre.live)

\* Resize(null, n) handed out a block of the free list
C8_Witness ==
    /\ Len(hist) >= 1 /\ Last.op = "Resize" /\ Last.ptr = NULL
    /\ Last.out = "ret" /\ Last.ret # NULL
    /\ Last.pre.HEAD # NULL /\ HEAD # Last.pre.HEAD /\ brk = Last.pre.brk

(***************************************************************************)
(* C9: for p held by the caller and 0 < n <= the size in p's header,       *)
(* Resize(p, n) returns p and changes no word of memory (so neither the    *)
(* size in the header nor the bytes at p), nor the free list, nor the      *)
(* break.                                                                  *)
(***************************************************************************)
C9_ResizeWithinCapacity ==
    (/\ Len(hist) >= 1 /\ Last.op = "Resize" /\ Last.ptr # NULL
     /\ Last.size > 0
     /\ Last.size <= Last.pre.mem[Sub(Last.ptr, SizeofSizeT)])
    => (Last.out = "ret" /\ Last.ret = Last.ptr /\ SameAs(Last.pre))

\* Resize(p, n) within the capacity of a block that holds a word of the caller
C9_Witness ==
    /\ Len(hist) >= 1 /\ Last.op = "Resize" /\ Last.ptr # NULL
    /\ Last.size > 0
    /\ Last.size <= Last.pre.mem[Sub(Last.ptr, SizeofSizeT)]
    /\ Last.ret = Last.ptr
    /\ mem[Last.ptr] \in UserVals

(***************************************************************************)
(* C10: for p held by the caller and n above the size in p's header, a     *)
(* Resize(p, n) whose allocation succeeds returns q # p; the first         *)
(* old-size bytes at q are the bytes that were at p, the size in q's       *)
(* header is at least n, and p's block is on the free list or absorbed by  *)
(* a free neighbour.                                                       *)
(***************************************************************************)
C10_ResizeMoves ==
    (/\ Len(hist) >= 1 /\ Last.op = "Resize" /\ Last.ptr # NULL
     /\ Last.size > Last.pre.mem[Sub(Last.ptr, SizeofSizeT)]
     /\ Last.out = "ret" /\ Last.ret # NULL)
    => (/\ Last.ret # Last.ptr
        /\ \A a \in Addrs :
              (a >= Last.ptr
               /\ a < Last.ptr + Last.pre.mem[Sub(Last.ptr, SizeofSizeT)])
              => Load(W0, Add(Last.ret, a - Last.ptr)) = Last.pre.mem[a]
        /\ Load(W0, Sub(Last.ret, SizeofSizeT)) >= Last.size
        /\ \/ Sub(Last.ptr, SizeofSizeT) \in FreeList
           \/ Sub(Last.ptr, SizeofSizeT) \notin freed)

C20_LiveBlocksOffList ==
    pc = "run" =>
        /\ \A i \in DOMAIN live : Sub(live[i].ptr, SizeofSizeT) \notin FreeList
        /\ \A i \in DOMAIN live : \A j \in DOMAIN live :
              i # j => live[i].ptr # live[j].ptr

\* no block reachable from head h in memory m has the size the scan of
\* tumalloc(size) asks for
NoneQualifies(m, h, size) ==
    \A b \in FreeListOf(m, h) : m[b] < Add(AlignUp(size), SizeofFreeBlock)

\* the system refuses the sbrk that tumalloc(size) makes from state pre
GrowthFails(pre, size, grant) ==
    sbrk(WOf(pre), Add(AlignUp(size), SizeofSizeT), grant).ret = Mod - 1

(***************************************************************************)
(* C12: an Allocate(size) that returns returns null exactly when no block  *)
(* of the free list qualifies and sbrk reports failure; then memory (the   *)
(* head and every link of the list) and the break are those before the     *)
(* call.                                                                   *)
(***************************************************************************)
C12_AllocateNullOnlyOnFailure ==
    (Len(hist) >= 1 /\ Last.op = "Allocate" /\ Last.out = "ret")
    => (/\ Last.ret = NULL
           <=> (/\ NoneQualifies(Last.pre.mem, Last.pre.HEAD, Last.size)
                /\ GrowthFails(Last.pre, Last.size, Last.grant))
        /\ Last.ret = NULL =>
              /\ SameAs(Last.pre)
              /\ live = Last.pre.live
              /\ FreeList = FreeListOf(Last.pre.mem, Last.pre.HEAD))

\* Allocate returned null with a block on the free list that does not qualify
C12_Witness ==
    /\ Len(hist) >= 1 /\ Last.op = "Allocate" /\ Last.out = "ret"
    /\ Last.ret = NULL /\ Last.size > 0
    /\ HEAD # NULL /\ mem[HEAD] > 0

(***************************************************************************)
(* C13: whatever sizes (any size_t values) Allocate, ZeroAllocate, Resize  *)
(* and Release are called with, the break never decreases: no call leaves  *)
(* it below where it was before the call.                                  *)
(***************************************************************************)
C13_BreakNeverDecreases ==
    Len(hist) >= 1 => brk >= Last.pre.brk

(***************************************************************************)
(* C14: for every size (any size_t value, also within 15 of the largest),  *)
(* when Allocate(size) returns a non-null address the size in that         *)
(* block's header is at least size, whether the block came from the free   *)
(* list or from sbrk.                                                      *)
(***************************************************************************)
C14_CapacityCoversRequest ==
    (/\ Len(hist) >= 1 /\ Last.op = "Allocate"
     /\ Last.out = "ret" /\ Last.ret # NULL)
    => Load(W0, Sub(Last.ret, SizeofSizeT)) >= Last.size

(***************************************************************************)
(* C15: a block carved from the heap and the block carved right after it   *)
(* are adjacent by the header size: the first block's address plus         *)
(* sizeof(free_block) plus its recorded size is the second block's         *)
(* address, i.e. the carving call raised the break by the rounded size     *)
(* plus sizeof(free_block).                                                *)
(***************************************************************************)
C15_SuccessorAdjacent ==
    (/\ Len(hist) >= 2
     /\ Called(1).op = "Allocate" /\ Called(1).out = "ret"
     /\ Called(1).ret = Add(Called(1).pre.brk, SizeofSizeT)
     /\ Last.op = "Allocate" /\ Last.out = "ret"
     /\ Last.ret = Add(Last.pre.brk, SizeofSizeT))
    => (/\ Add(Add(Sub(Called(1).ret, SizeofSizeT), SizeofFreeBlock),
                mem[Sub(Called(1).ret, SizeofSizeT)])
           = Sub(Last.ret, SizeofSizeT)
        /\ Last.pre.brk - Called(1).pre.brk
           = AlignUp(Called(1).size) + SizeofFreeBlock)

\* the blocks reached from curr by following next links in memory m, in the
\* order the links give, up to the first block met twice
RECURSIVE ListSeqFrom(_, _, _)
ListSeqFrom(m, curr, acc) ==
    IF curr = NULL \/ ~Mapped(curr) \/ (\E i \in DOMAIN acc : acc[i] = curr) THEN acc
    ELSE ListSeqFrom(m, IF Mapped(NextAddr(curr)) THEN m[NextAddr(curr)] ELSE NULL,
                     Append(acc, curr))

ListSeq(m, h) == ListSeqFrom(m, h, <<>>)

\* the first block, in list order from head h, with the size the scan of
\* tumalloc(size) asks for; NULL when there is none
FirstFit(m, h, size) ==
    LET s == ListSeq(m, h)
        I == {i \in DOMAIN s : m[s[i]] >= Add(AlignUp(size), SizeofFreeBlock)}
    IN  IF I = {} THEN NULL ELSE s[CHOOSE i \in I : \A j \in I : i <= j]

\* sequence s without block q
Without(s, q) == LET Keep(x) == x # q IN SelectSeq(s, Keep)

(***************************************************************************)
(* C16: an Allocate that returns takes the first block in list order whose *)
(* recorded size is at least the rounded request plus sizeof(free_block):  *)
(* it returns that block's payload address, leaves its recorded size and   *)
(* the break as they were, and takes exactly that block off the list, the  *)
(* other blocks keeping their order and sizes.  When no block qualifies    *)
(* the heap is grown instead and the list (head, links, sizes) is as       *)
(* before.                                                                 *)
(***************************************************************************)
C16_FirstFitNoSplit ==
    (Len(hist) >= 1 /\ Last.op = "Allocate" /\ Last.out = "ret")
    => IF FirstFit(Last.pre.mem, Last.pre.HEAD, Last.size) # NULL
       THEN /\ Last.ret = Add(FirstFit(Last.pre.mem, Last.pre.HEAD, Last.size),
                              SizeofSizeT)
            /\ Load(W0, Sub(Last.ret, SizeofSizeT))
               = Last.pre.mem[Sub(Last.ret, SizeofSizeT)]
            /\ brk = Last.pre.brk
            /\ ListSeq(mem, HEAD)
               = Without(ListSeq(Last.pre.mem, Last.pre.HEAD),
                         Sub(Last.ret, SizeofSizeT))
            /\ \A b \in FreeList : mem[b] = Last.pre.mem[b]
       ELSE /\ Last.ret # NULL => brk > Last.pre.brk
            /\ HEAD = Last.pre.HEAD
            /\ \A b \in FreeListOf(Last.pre.mem, Last.pre.HEAD) :
                  /\ mem[b] = Last.pre.mem[b]
                  /\ Load(W0, NextAddr(b)) = Load(WOf(Last.pre), NextAddr(b))

(***************************************************************************)
(* C17: split(block, s) of a free-list block of recorded size c: when      *)
(* c >= s + sizeof(free_block) it returns block, block's size becomes s,   *)
(* and the remainder at block + s + sizeof(free_block) has size            *)
(* c - s - sizeof(free_block) and is reachable from the free-list head;    *)
(* when c < s + sizeof(free_block) it returns null and changes nothing.    *)
(***************************************************************************)
C17_SplitLinksRemainder ==
    (Len(hist) >= 1 /\ Last.op = "Split" /\ Last.out = "ret")
    => IF Last.pre.mem[Last.ptr] >= Last.size + SizeofFreeBlock
       THEN /\ Last.ret = Last.ptr
            /\ mem[Last.ptr] = Last.size
            /\ mem[Last.ptr + Last.size + SizeofFreeBlock]
               = Last.pre.mem[Last.ptr] - Last.size - SizeofFreeBlock
            /\ (Last.ptr + Last.size + SizeofFreeBlock) \in FreeList
       ELSE Last.ret = NULL /\ SameAs(Last.pre)

(***************************************************************************)
(* C18: the blocks the caller holds never overlap: their addresses are     *)
(* distinct and their regions, from the size word in front of the pointer  *)
(* to the pointer plus the recorded size, are pairwise disjoint.           *)
(***************************************************************************)
C18_LiveBlocksDisjoint ==
    pc = "run" =>
        \A i \in DOMAIN live : \A j \in DOMAIN live :
            i # j =>
                /\ live[i].ptr # live[j].ptr
                /\ \/ live[i].ptr + mem[live[i].ptr - SizeofSizeT]
                      <= live[j].ptr - SizeofSizeT
                   \/ live[j].ptr + mem[live[j].ptr - SizeofSizeT]
                      <= live[i].ptr - SizeofSizeT

(***************************************************************************)
(* C19: Release(p) of a pointer the caller holds leaves the recorded size  *)
(* of every other block the caller holds as it was, also when p came from  *)
(* Allocate(0).                                                            *)
(***************************************************************************)
C19_ReleaseKeepsOtherSizes ==
    (/\ Len(hist) >= 1 /\ Last.op = "Release" /\ Last.ptr # NULL
     /\ Last.out = "ret")
    => \A i \in DOMAIN live :
          mem[live[i].ptr - SizeofSizeT] = Last.pre.mem[live[i].ptr - SizeofSizeT]

====
